---- MODULE Spec2Model ----
(***************************************************************************)
(* Model of the decision engine of scalper-trader-backend:                 *)
(* TechnicalAnalyzer (src/technical_analysis.py).                          *)
(*                                                                         *)
(* Numbers.  Every float of the program is a record [nan, v]: NaN, or the  *)
(* integer v counting thousandths (v = 1004 is 1.004).  Products with the  *)
(* factors 1.02, 0.985, 0.98, 1.015 are exact in millionths, which is the  *)
(* unit of the unrounded take_profit / stop_loss.  Returned money values   *)
(* are in hundredths (round(x, 2)).  Binary floating point error is not    *)
(* modelled: arithmetic is exact and round() rounds half to even.          *)
(***************************************************************************)
EXTENDS Integers, Sequences, FiniteSets, TLC

VARIABLES pc, req, res, calls, loc, prev

\* the process: random_state is the state of numpy's global generator,
\* indicators the field self.indicators of the analyzer of main.py, log the
\* calls made on it so far
VARIABLES random_state, indicators, log

\* the service: uploads is the directory UPLOAD_DIR (path -> content), clock
\* the value of int(time.time()), workers the requests in progress, saved the
\* signals handed to save_signal
VARIABLES uploads, clock, workers, saved

process == <<random_state, indicators, log>>

service == <<uploads, clock, workers, saved>>

vars == <<pc, req, res, calls, loc, prev, random_state, indicators, log,
          uploads, clock, workers, saved>>

(***************************************************************************)
(* Floats                                                                  *)
(***************************************************************************)
NaN == [nan |-> TRUE, v |-> 0]

Num(x) == [nan |-> FALSE, v |-> x]

\* a < b and a > b on floats: any comparison with NaN is False
Lt(a, b) == ~a.nan /\ ~b.nan /\ a.v < b.v

Gt(a, b) == ~a.nan /\ ~b.nan /\ a.v > b.v

\* Python's builtin min(a, b) / max(a, b): the first argument unless the
\* second compares strictly smaller / larger
py_min(a, b) == IF b < a THEN b ELSE a

py_max(a, b) == IF b > a THEN b ELSE a

Abs(x) == IF x < 0 THEN 0 - x ELSE x

\* x / d rounded to the nearest integer, ties to the even one (d > 0)
RoundHalfEven(x, d) ==
    LET q == x \div d
        r == x % d
    IN  IF 2 * r < d THEN q
        ELSE IF 2 * r > d THEN q + 1
        ELSE IF q % 2 = 0 THEN q ELSE q + 1

\* round(x, 2) of a value in millionths, in hundredths
round2_micro(x) == RoundHalfEven(x, 10000)

\* round(x, 2) of a float in thousandths: NaN stays NaN, else hundredths
round2(x) == IF x.nan THEN NaN ELSE Num(RoundHalfEven(x.v, 10))

\* round(x, 4) of a float in thousandths: NaN stays NaN, else ten-thousandths
round4(x) == IF x.nan THEN NaN ELSE Num(x.v * 10)

(***************************************************************************)
(* Column names: a name is a sequence of characters                        *)
(***************************************************************************)
UpperAlphabet == <<"A", "B", "C", "D", "E", "F", "G", "H", "I", "J", "K", "L", "M",
                   "N", "O", "P", "Q", "R", "S", "T", "U", "V", "W", "X", "Y", "Z">>

LowerAlphabet == <<"a", "b", "c", "d", "e", "f", "g", "h", "i", "j", "k", "l", "m",
                   "n", "o", "p", "q", "r", "s", "t", "u", "v", "w", "x", "y", "z">>

Whitespace == {" ", "\t"}

LowerChar(ch) ==
    IF \E i \in DOMAIN UpperAlphabet : UpperAlphabet[i] = ch
    THEN LowerAlphabet[CHOOSE i \in DOMAIN UpperAlphabet : UpperAlphabet[i] = ch]
    ELSE ch

str_lower(s) == [i \in 1..Len(s) |-> LowerChar(s[i])]

RECURSIVE str_lstrip(_)
str_lstrip(s) ==
    IF s # <<>> /\ Head(s) \in Whitespace THEN str_lstrip(Tail(s)) ELSE s

RECURSIVE str_rstrip(_)
str_rstrip(s) ==
    IF s # <<>> /\ s[Len(s)] \in Whitespace
    THEN str_rstrip(SubSeq(s, 1, Len(s) - 1)) ELSE s

str_strip(s) == str_rstrip(str_lstrip(s))

n_time == <<"t", "i", "m", "e">>
n_timestamp == <<"t", "i", "m", "e", "s", "t", "a", "m", "p">>
n_datetime == <<"d", "a", "t", "e", "t", "i", "m", "e">>
n_date == <<"d", "a", "t", "e">>
n_open == <<"o", "p", "e", "n">>
n_high == <<"h", "i", "g", "h">>
n_low == <<"l", "o", "w">>
n_close == <<"c", "l", "o", "s", "e">>
n_volume == <<"v", "o", "l", "u", "m", "e">>

\* the dict of line 26, in insertion order: <<old_col, new_col>>
column_mapping ==
    << <<n_timestamp, n_time>>, <<n_datetime, n_time>>, <<n_date, n_time>>,
       << <<"o">>, n_open>>, << <<"h">>, n_high>>, << <<"l">>, n_low>>,
       << <<"c">>, n_close>>, << <<"v">>, n_volume>> >>

required_cols == <<n_open, n_high, n_low, n_close>>

Range(s) == {s[i] : i \in DOMAIN s}

Count(s, x) == Cardinality({i \in DOMAIN s : s[i] = x})

\* df.columns.str.lower().str.strip()
standardize_columns(cols) == [i \in DOMAIN cols |-> str_strip(str_lower(cols[i]))]

\* the loop of lines 31-33 from the k-th item of column_mapping on
RECURSIVE rename_columns(_, _)
rename_columns(cols, k) ==
    IF k > Len(column_mapping) THEN cols
    ELSE LET old_col == column_mapping[k][1]
             new_col == column_mapping[k][2]
         IN  rename_columns(
                 IF old_col \in Range(cols)
                 THEN [i \in DOMAIN cols |-> IF cols[i] = old_col THEN new_col ELSE cols[i]]
                 ELSE cols,
                 k + 1)

\* the columns of df when line 36 is reached
df_columns(header) == rename_columns(standardize_columns(header), 1)

\* a plausible slip: any() written for all()
has_required_cols_any(cols) == \E k \in DOMAIN required_cols : required_cols[k] \in Range(cols)

\* all(col in df.columns for col in required_cols)
has_required_cols(cols) == \A k \in DOMAIN required_cols : required_cols[k] \in Range(cols)

\* df[col] is a DataFrame, not a Series, when the label col occurs twice;
\* pd.to_numeric then raises TypeError
to_numeric_raises(cols) == \E k \in DOMAIN required_cols : Count(cols, required_cols[k]) > 1

(***************************************************************************)
(* _generate_signal_from_indicators.  a is the record of its float         *)
(* arguments (current_price ... resistance), in thousandths.               *)
(***************************************************************************)
\* x units as thousandths
Units(x) == x * 1000

\* lines 138-143
trend_vote(a) ==
    IF Gt(a.sma_20, a.sma_50) /\ Gt(a.ema_12, a.ema_26) THEN "BUY"
    ELSE IF Lt(a.sma_20, a.sma_50) /\ Lt(a.ema_12, a.ema_26) THEN "SELL"
    ELSE "NONE"

\* lines 146-151
rsi_vote(a) ==
    IF Lt(a.rsi, Num(Units(30))) THEN "BUY"
    ELSE IF Gt(a.rsi, Num(Units(70))) THEN "SELL"
    ELSE "NONE"

\* lines 154-159
macd_vote(a) ==
    IF Gt(a.macd, a.macd_signal) /\ Gt(a.macd, Num(0)) THEN "BUY"
    ELSE IF Lt(a.macd, a.macd_signal) /\ Lt(a.macd, Num(0)) THEN "SELL"
    ELSE "NONE"

\* lines 162-167
bollinger_vote(a) ==
    IF Lt(a.current_price, a.bb_lower) THEN "BUY"
    ELSE IF Gt(a.current_price, a.bb_upper) THEN "SELL"
    ELSE "NONE"

\* lines 170-175
stochastic_vote(a) ==
    IF Lt(a.stoch_k, Num(Units(20))) /\ Lt(a.stoch_d, Num(Units(20))) THEN "BUY"
    ELSE IF Gt(a.stoch_k, Num(Units(80))) /\ Gt(a.stoch_d, Num(Units(80))) THEN "SELL"
    ELSE "NONE"

\* abs(current_price - level) / current_price < 0.01 on numpy scalars: a zero
\* price divides to inf or NaN (a warning, no exception) and compares False; a
\* negative price makes the quotient <= 0, which is below 0.01
near_level(price, level) ==
    IF price.nan \/ level.nan THEN FALSE
    ELSE IF price.v > 0 THEN Abs(price.v - level.v) * 100 < price.v
    ELSE price.v < 0

\* lines 178-183
proximity_vote(a) ==
    IF near_level(a.current_price, a.support) THEN "BUY"
    ELSE IF near_level(a.current_price, a.resistance) THEN "SELL"
    ELSE "NONE"

\* a plausible slip: the proximity rule written as two independent ifs
rule_votes_two_ifs(a) ==
    << <<trend_vote(a), 25>>, <<rsi_vote(a), 20>>, <<macd_vote(a), 15>>,
       <<bollinger_vote(a), 15>>, <<stochastic_vote(a), 10>>,
       <<IF near_level(a.current_price, a.support) THEN "BUY" ELSE "NONE", 15>>,
       <<IF near_level(a.current_price, a.resistance) THEN "SELL" ELSE "NONE", 15>> >>

\* the six rules in the order of the code, each with its weight in hundredths
rule_votes(a) ==
    << <<trend_vote(a), 25>>, <<rsi_vote(a), 20>>, <<macd_vote(a), 15>>,
       <<bollinger_vote(a), 15>>, <<stochastic_vote(a), 10>>, <<proximity_vote(a), 15>> >>

\* the list signals after line 183
signals_of(a) ==
    LET cast == SelectSeq(rule_votes(a), LAMBDA rv : rv[1] # "NONE")
    IN  [i \in DOMAIN cast |-> cast[i][1]]

\* the list confidence_factors after line 183
confidence_factors_of(a) ==
    LET cast == SelectSeq(rule_votes(a), LAMBDA rv : rv[1] # "NONE")
    IN  [i \in DOMAIN cast |-> cast[i][2]]

RECURSIVE SumWhere(_, _, _, _)
SumWhere(signals, factors, dir, i) ==
    IF i > Len(signals) THEN 0
    ELSE (IF signals[i] = dir THEN factors[i] ELSE 0) + SumWhere(signals, factors, dir, i + 1)

Min2(x, y) == IF x <= y THEN x ELSE y

\* a plausible slip: the decision taken on the summed weights of each side
final_signal_by_weight(signals, confidence_factors) ==
    LET buy_signals == Count(signals, "BUY")
        sell_signals == Count(signals, "SELL")
        buy_w == SumWhere(signals, confidence_factors, "BUY", 1)
        sell_w == SumWhere(signals, confidence_factors, "SELL", 1)
    IN  IF buy_w > sell_w
        THEN [action |-> "BUY", confidence |-> Min2(95, 60 + buy_signals * 8)]
        ELSE IF sell_w > buy_w
        THEN [action |-> "SELL", confidence |-> Min2(95, 60 + sell_signals * 8)]
        ELSE [action |-> "HOLD", confidence |-> 50]

\* a plausible slip: the cap of 95 left out
final_signal_uncapped(signals, confidence_factors) ==
    LET buy_signals == Count(signals, "BUY")
        sell_signals == Count(signals, "SELL")
    IN  IF buy_signals > sell_signals
        THEN [action |-> "BUY", confidence |-> 60 + buy_signals * 8]
        ELSE IF sell_signals > buy_signals
        THEN [action |-> "SELL", confidence |-> 60 + sell_signals * 8]
        ELSE [action |-> "HOLD", confidence |-> 50]

\* a plausible slip: the vote bonus subtracted instead of added
final_signal_minus(signals, confidence_factors) ==
    LET buy_signals == Count(signals, "BUY")
        sell_signals == Count(signals, "SELL")
    IN  IF buy_signals > sell_signals
        THEN [action |-> "BUY", confidence |-> py_min(95, 60 - buy_signals * 8)]
        ELSE IF sell_signals > buy_signals
        THEN [action |-> "SELL", confidence |-> py_min(95, 60 - sell_signals * 8)]
        ELSE [action |-> "HOLD", confidence |-> 50]

\* lines 186-197
final_signal(signals, confidence_factors) ==
    LET buy_signals == Count(signals, "BUY")
        sell_signals == Count(signals, "SELL")
    IN  IF buy_signals > sell_signals
        THEN [action |-> "BUY", confidence |-> py_min(95, 60 + buy_signals * 8)]
        ELSE IF sell_signals > buy_signals
        THEN [action |-> "SELL", confidence |-> py_min(95, 60 + sell_signals * 8)]
        ELSE [action |-> "HOLD", confidence |-> 50]

\* a plausible slip: the BUY and SELL branches exchanged
price_targets_inverted(action, entry, support, resistance) ==
    IF action = "SELL"
    THEN [take_profit |-> py_min(resistance * 1000, entry * 1020),
          stop_loss |-> py_max(support * 1000, entry * 985)]
    ELSE IF action = "BUY"
    THEN [take_profit |-> py_max(support * 1000, entry * 980),
          stop_loss |-> py_min(resistance * 1000, entry * 1015)]
    ELSE [take_profit |-> entry * 1000, stop_loss |-> entry * 1000]

\* a plausible slip: fixed percentages, support and resistance ignored
price_targets_percent(action, entry, support, resistance) ==
    IF action = "BUY"
    THEN [take_profit |-> entry * 1020, stop_loss |-> entry * 985]
    ELSE IF action = "SELL"
    THEN [take_profit |-> entry * 980, stop_loss |-> entry * 1015]
    ELSE [take_profit |-> entry * 1000, stop_loss |-> entry * 1000]

\* lines 202-210; entry, support, resistance in thousandths, the levels in
\* millionths
price_targets(action, entry, support, resistance) ==
    IF action = "BUY"
    THEN [take_profit |-> py_min(resistance * 1000, entry * 1020),
          stop_loss |-> py_max(support * 1000, entry * 985)]
    ELSE IF action = "SELL"
    THEN [take_profit |-> py_max(support * 1000, entry * 980),
          stop_loss |-> py_min(resistance * 1000, entry * 1015)]
    ELSE [take_profit |-> entry * 1000, stop_loss |-> entry * 1000]

\* the local variables of _generate_signal_from_indicators at its return
signal_locals(a) ==
    LET signals == signals_of(a)
        confidence_factors == confidence_factors_of(a)
        fin == final_signal(signals, confidence_factors)
        entry == a.current_price.v
        tgt == price_targets(fin.action, entry, a.support.v, a.resistance.v)
    IN  [signals |-> signals,
         confidence_factors |-> confidence_factors,
         buy_signals |-> Count(signals, "BUY"),
         sell_signals |-> Count(signals, "SELL"),
         action |-> fin.action,
         confidence |-> fin.confidence,
         entry |-> entry,
         take_profit |-> tgt.take_profit,
         stop_loss |-> tgt.stop_loss]

\* the dict of lines 212-228, from the locals
signal_dict(l, a, timeframe) ==
    [action |-> l.action,
     entry |-> round2_micro(l.entry * 1000),
     take_profit |-> round2_micro(l.take_profit),
     stop_loss |-> round2_micro(l.stop_loss),
     confidence |-> ToString(l.confidence) \o "%",
     timeframe |-> timeframe,
     indicators |-> [rsi |-> round2(a.rsi),
                     macd |-> round4(a.macd),
                     sma_20 |-> round2(a.sma_20),
                     sma_50 |-> round2(a.sma_50),
                     support |-> round2(a.support),
                     resistance |-> round2(a.resistance)],
     analysis_type |-> "technical_indicators"]

generate_signal_from_indicators(a, timeframe) == signal_dict(signal_locals(a), a, timeframe)

(***************************************************************************)
(* _generate_error_signal                                                  *)
(***************************************************************************)
generate_error_signal(error_message) ==
    [error |-> TRUE,
     message |-> error_message,
     action |-> "HOLD",
     entry |-> 0,
     take_profit |-> 0,
     stop_loss |-> 0,
     confidence |-> "0%",
     analysis_type |-> "error"]

(***************************************************************************)
(* The tabular path.  A CSV file is unreadable (pd.read_csv raises) or a   *)
(* table [header, rows, mkt]: header is the sequence of raw column names,  *)
(* rows counts the data rows (num: open, high, low and close all numeric;  *)
(* bad: one of them missing or not a number), and mkt describes the rows   *)
(* that survive cleaning: the last close, the lows and highs of the last   *)
(* 20 rows as <<extreme of the 19 earlier rows, last row>>, and the last   *)
(* value each indicator of the ta library has once its window is filled.   *)
(***************************************************************************)
SeqMin(s) == CHOOSE x \in Range(s) : \A y \in Range(s) : x <= y

SeqMax(s) == CHOOSE x \in Range(s) : \A y \in Range(s) : x >= y

\* pd.to_numeric(errors='coerce') on the four columns: a cell that is not a
\* number becomes NaN
to_numeric(rows) == [num |-> rows.num, nan |-> rows.bad]

\* df.dropna(subset=required_cols)
dropna(rows) == [num |-> rows.num, nan |-> 0]

\* len(df)
df_len(rows) == rows.num + rows.nan

\* line 47
insufficient_data(n) == n < 20

\* _find_support_resistance, lines 236-241
find_support_resistance(mkt) == <<SeqMin(mkt.tail_low), SeqMax(mkt.tail_high)>>

\* a plausible slip: fillna = True, the series has a value from its first row
ta_last_filled(n, window, value) == value

\* .iloc[-1] of a ta series over n rows whose first defined value is at row
\* number window (min_periods = window, fillna = False)
ta_last(n, window, value) == IF n < window THEN NaN ELSE value

\* _calculate_indicators, lines 84-123: the arguments handed to
\* _generate_signal_from_indicators for a cleaned frame of n rows
indicator_args(n, mkt) ==
    LET sr == find_support_resistance(mkt)
    IN  [current_price |-> Num(mkt.close),
         sma_20 |-> ta_last(n, 20, mkt.sma_20),
         sma_50 |-> ta_last(n, 50, mkt.sma_50),
         ema_12 |-> ta_last(n, 12, mkt.ema_12),
         ema_26 |-> ta_last(n, 26, mkt.ema_26),
         rsi |-> ta_last(n, 14, mkt.rsi),
         macd |-> ta_last(n, 26, mkt.macd),
         macd_signal |-> ta_last(n, 34, mkt.macd_signal),
         bb_upper |-> ta_last(n, 20, mkt.bb_upper),
         bb_lower |-> ta_last(n, 20, mkt.bb_lower),
         bb_middle |-> ta_last(n, 20, mkt.bb_middle),
         stoch_k |-> ta_last(n, 14, mkt.stoch_k),
         stoch_d |-> ta_last(n, 16, mkt.stoch_d),
         support |-> Num(sr[1]),
         resistance |-> Num(sr[2])]

NoLocals == [action |-> "none"]

MsgInvalidFormat == "Invalid CSV format. Required columns: Open, High, Low, Close"

MsgInsufficient == "Insufficient data for analysis (minimum 20 candles required)"

MsgCsvFailed == "CSV analysis failed: "

MsgImageLoad == "Could not load image file"

MsgImageFailed == "Image analysis failed: "

Returned(result, made, locals) ==
    [raised |-> FALSE, exc |-> "", result |-> result, calls |-> made, locals |-> locals]

Raised(exc, made) ==
    [raised |-> TRUE, exc |-> exc, result |-> [analysis_type |-> "none"],
     calls |-> made, locals |-> NoLocals]

\* the try block of analyze_csv_data, lines 19-53
csv_try(file, timeframe) ==
    IF ~file.readable
    THEN Raised("No columns to parse from file", <<"read_csv">>)
    ELSE
    LET cols == df_columns(file.header)
    IN  IF ~has_required_cols(cols)
        THEN Returned(generate_error_signal(MsgInvalidFormat),
                      <<"read_csv", "_generate_error_signal">>, NoLocals)
        ELSE IF to_numeric_raises(cols)
        THEN Raised("arg must be a list, tuple, 1-d array, or Series",
                    <<"read_csv", "to_numeric">>)
        ELSE
        LET n == df_len(dropna(to_numeric(file.rows)))
        IN  IF insufficient_data(n)
            THEN Returned(generate_error_signal(MsgInsufficient),
                          <<"read_csv", "to_numeric", "dropna", "_generate_error_signal">>,
                          NoLocals)
            ELSE
            LET a == indicator_args(n, file.mkt)
            IN  Returned(generate_signal_from_indicators(a, timeframe),
                         <<"read_csv", "to_numeric", "dropna", "_calculate_indicators",
                           "_find_support_resistance", "_generate_signal_from_indicators">>,
                         signal_locals(a))

\* a plausible slip: no except clause, the exception leaves the method
analyze_csv_data_no_except(file, timeframe) ==
    LET t == csv_try(file, timeframe)
    IN  IF t.raised
        THEN [result |-> [analysis_type |-> "raised", message |-> t.exc],
              calls |-> t.calls, locals |-> t.locals]
        ELSE [result |-> t.result, calls |-> t.calls, locals |-> t.locals]

\* a plausible slip: the entry is sampled from the random generator, as in
\* the image path
analyze_csv_data_sampled(file, timeframe) ==
    LET t == csv_try(file, timeframe)
    IN  IF t.raised
        THEN [result |-> generate_error_signal(MsgCsvFailed \o t.exc),
              calls |-> Append(t.calls, "_generate_error_signal"), locals |-> t.locals]
        ELSE [result |-> IF t.result.analysis_type = "error" THEN t.result
                         ELSE [t.result EXCEPT !.entry = random_state],
              calls |-> t.calls, locals |-> t.locals]

\* analyze_csv_data, lines 16-56: the returned dict, the calls made and the
\* locals of the scoring (when it ran)
analyze_csv_data(file, timeframe) ==
    LET t == csv_try(file, timeframe)
    IN  IF t.raised
        THEN [result |-> generate_error_signal(MsgCsvFailed \o t.exc),
              calls |-> Append(t.calls, "_generate_error_signal"), locals |-> t.locals]
        ELSE [result |-> t.result, calls |-> t.calls, locals |-> t.locals]

(***************************************************************************)
(* The image path.  An image file is unreadable (cv2.imread returns None)  *)
(* or an image [cv_error, lines]: cv_error says that an OpenCV call raises *)
(* cv2.error on it, lines is the sequence of segments <<x1, y1, x2, y2>>   *)
(* cv2.HoughLinesP finds (it returns None instead of an empty array).      *)
(***************************************************************************)
\* np.arctan2(dy, dx) * 180 / np.pi in thousandths of a degree, for the
\* directions of the segments the model draws
arctan2_deg(dy, dx) ==
    CASE dy = 0 /\ dx > 0 -> 0
      [] dy = dx /\ dx > 0 -> 45000
      [] dy = 0 - dx /\ dx > 0 -> 0 - 45000
      [] dy = 18 /\ dx = 100 -> 10204
      [] dy = 0 - 18 /\ dx = 100 -> 0 - 10204

RECURSIVE SeqSum(_)
SeqSum(s) == IF s = <<>> THEN 0 ELSE Head(s) + SeqSum(Tail(s))

\* a plausible slip: any upward mean angle is bullish, any downward bearish
detect_chart_patterns_any_slope(image) ==
    LET lines == image.lines
        is_none == lines = <<>>
        angles == [i \in DOMAIN lines |-> arctan2_deg(lines[i][4] - lines[i][2],
                                                      lines[i][3] - lines[i][1])]
    IN  [trend_lines |-> IF is_none THEN 0 ELSE Len(lines),
         bullish_pattern |-> ~is_none /\ SeqSum(angles) > 0,
         bearish_pattern |-> ~is_none /\ SeqSum(angles) < 0]

\* _detect_chart_patterns, lines 243-274
detect_chart_patterns(image) ==
    LET lines == image.lines
        is_none == lines = <<>>
        angles == [i \in DOMAIN lines |-> arctan2_deg(lines[i][4] - lines[i][2],
                                                      lines[i][3] - lines[i][1])]
        \* avg_angle > 10 and avg_angle < -10, with avg_angle = sum / count
        up == ~is_none /\ SeqSum(angles) > 10000 * Len(angles)
        down == ~is_none /\ SeqSum(angles) < (0 - 10000) * Len(angles)
    IN  [trend_lines |-> IF is_none THEN 0 ELSE Len(lines),
         bullish_pattern |-> up,
         bearish_pattern |-> ~up /\ down]

\* round(x, 2) of a value counted in 1/200 of a thousandth, in hundredths
round2_fine(x) == RoundHalfEven(x, 2000)

\* a plausible slip: the confidence grows with the sampled price
image_locals_by_price(patterns, base_price) ==
    LET action == IF patterns.bullish_pattern THEN "BUY"
                  ELSE IF patterns.bearish_pattern THEN "SELL" ELSE "HOLD"
        confidence == IF action = "HOLD" THEN 60 ELSE base_price \div 26000
    IN  [action |-> action, confidence |-> confidence, entry |-> base_price,
         take_profit |-> IF action = "BUY" THEN base_price * 205
                         ELSE IF action = "SELL" THEN base_price * 195 ELSE base_price * 200,
         stop_loss |-> IF action = "BUY" THEN base_price * 197
                       ELSE IF action = "SELL" THEN base_price * 203 ELSE base_price * 200]

\* a plausible slip: the factors of the tabular path, 1.02 and 0.98
image_locals_tabular_factors(patterns, base_price) ==
    LET action == IF patterns.bullish_pattern THEN "BUY"
                  ELSE IF patterns.bearish_pattern THEN "SELL" ELSE "HOLD"
    IN  [action |-> action, confidence |-> IF action = "HOLD" THEN 60 ELSE 75,
         entry |-> base_price,
         take_profit |-> IF action = "BUY" THEN base_price * 204
                         ELSE IF action = "SELL" THEN base_price * 196 ELSE base_price * 200,
         stop_loss |-> IF action = "BUY" THEN base_price * 197
                       ELSE IF action = "SELL" THEN base_price * 203 ELSE base_price * 200]

\* the locals of _generate_image_based_signal, lines 279-303; base_price is
\* the value np.random.uniform(1800, 2100) returned, in thousandths; the
\* levels are counted in 1/200 of a thousandth, in which the factors 1.025,
\* 0.985, 0.975 and 1.015 are 205, 197, 195 and 203
image_locals(patterns, base_price) ==
    LET action == IF patterns.bullish_pattern THEN "BUY"
                  ELSE IF patterns.bearish_pattern THEN "SELL" ELSE "HOLD"
        confidence == IF action = "HOLD" THEN 60 ELSE 75
        entry == base_price
    IN  [action |-> action,
         confidence |-> confidence,
         entry |-> entry,
         take_profit |-> IF action = "BUY" THEN entry * 205
                         ELSE IF action = "SELL" THEN entry * 195 ELSE entry * 200,
         stop_loss |-> IF action = "BUY" THEN entry * 197
                       ELSE IF action = "SELL" THEN entry * 203 ELSE entry * 200]

\* _generate_image_based_signal, lines 305-314
generate_image_based_signal(patterns, timeframe, base_price) ==
    LET l == image_locals(patterns, base_price)
    IN  [action |-> l.action,
         entry |-> round2_fine(l.entry * 200),
         take_profit |-> round2_fine(l.take_profit),
         stop_loss |-> round2_fine(l.stop_loss),
         confidence |-> ToString(l.confidence) \o "%",
         timeframe |-> timeframe,
         patterns |-> patterns,
         analysis_type |-> "chart_pattern"]

\* the try block of analyze_chart_image, lines 61-75
image_try(file, timeframe, base_price) ==
    IF ~file.readable
    THEN Returned(generate_error_signal(MsgImageLoad),
                  <<"imread", "_generate_error_signal">>, NoLocals)
    ELSE IF file.cv_error
    THEN Raised("OpenCV error", <<"imread", "cvtColor">>)
    ELSE
    LET patterns == detect_chart_patterns(file)
    IN  Returned(generate_image_based_signal(patterns, timeframe, base_price),
                 <<"imread", "cvtColor", "_detect_chart_patterns",
                   "_generate_image_based_signal">>,
                 image_locals(patterns, base_price))

\* analyze_chart_image, lines 58-78
analyze_chart_image(file, timeframe, base_price) ==
    LET t == image_try(file, timeframe, base_price)
    IN  IF t.raised
        THEN [result |-> generate_error_signal(MsgImageFailed \o t.exc),
              calls |-> Append(t.calls, "_generate_error_signal"), locals |-> t.locals]
        ELSE [result |-> t.result, calls |-> t.calls, locals |-> t.locals]

(***************************************************************************)
(* Bounds and inputs                                                       *)
(***************************************************************************)
\* most rows with four numeric prices in a file
MaxRows == 51

\* most rows with a missing or non-numeric price in a file
MaxBadRows == 1

\* most segments HoughLinesP returns
MaxLines == 3

Timeframes == {"1h"}

\* the raw column names a header is drawn from, in file order
AllCols ==
    << <<"D", "a", "t", "e">>, <<"O", "p", "e", "n">>, <<"o">>, <<"h">>,
       <<" ", "L", "O", "W", " ">>, <<"l">>, <<"c">> >>

RECURSIVE PickCols(_, _)
PickCols(S, i) ==
    IF i > Len(AllCols) THEN <<>>
    ELSE (IF i \in S THEN <<AllCols[i]>> ELSE <<>>) \o PickCols(S, i + 1)

Headers == {PickCols(S, 1) : S \in SUBSET (1..Len(AllCols))}

RowCounts == [num : 0..MaxRows, bad : 0..MaxBadRows]

TrendCases ==
    { [sma_20 |-> Num(1010), sma_50 |-> Num(1000), ema_12 |-> Num(1012), ema_26 |-> Num(1005)],
      [sma_20 |-> Num(1000), sma_50 |-> Num(1010), ema_12 |-> Num(1005), ema_26 |-> Num(1012)],
      [sma_20 |-> Num(1010), sma_50 |-> Num(1000), ema_12 |-> Num(1005), ema_26 |-> Num(1012)],
      [sma_20 |-> Num(1010), sma_50 |-> NaN, ema_12 |-> Num(1012), ema_26 |-> Num(1005)] }

RsiCases == {Num(25000), Num(30000), Num(70000), Num(75000), NaN}

MacdCases ==
    { [macd |-> Num(500), macd_signal |-> Num(200)],
      [macd |-> Num(0 - 500), macd_signal |-> Num(0 - 200)],
      [macd |-> Num(500), macd_signal |-> Num(800)],
      [macd |-> Num(500), macd_signal |-> NaN] }

\* the Bollinger bands as offsets from the price: around it, above it, below it
BandCases == { [lower |-> 0 - 100, upper |-> 100], [lower |-> 50, upper |-> 150],
               [lower |-> 0 - 150, upper |-> 0 - 50] }

StochCases ==
    { [stoch_k |-> Num(10000), stoch_d |-> Num(15000)],
      [stoch_k |-> Num(90000), stoch_d |-> Num(85000)],
      [stoch_k |-> Num(10000), stoch_d |-> Num(50000)] }

\* last closes, in thousandths, the everyday one first
PriceList == <<1000, 200, 0, 0 - 1000>>

\* support and resistance in thousandths of the last close
SupportList == <<1000, 900, 1010>>

ResistanceList == <<1100, 1005, 1000, 990>>

Scaled(p, f) == (p * f) \div 1000

MkArgs(p, sup, rst, t, r, m, b, st) ==
    [current_price |-> Num(p),
     sma_20 |-> t.sma_20, sma_50 |-> t.sma_50, ema_12 |-> t.ema_12, ema_26 |-> t.ema_26,
     rsi |-> r, macd |-> m.macd, macd_signal |-> m.macd_signal,
     bb_upper |-> Num(p + b.upper), bb_lower |-> Num(p + b.lower),
     bb_middle |-> Num(p + (b.upper + b.lower) \div 2),
     stoch_k |-> st.stoch_k, stoch_d |-> st.stoch_d,
     support |-> Num(sup), resistance |-> Num(rst)]

MkMarket(p, lows, highs, t, r) ==
    [close |-> p, tail_low |-> lows, tail_high |-> highs,
     sma_20 |-> t.sma_20, sma_50 |-> t.sma_50, ema_12 |-> t.ema_12, ema_26 |-> t.ema_26,
     rsi |-> r, macd |-> Num(500), macd_signal |-> Num(200),
     bb_upper |-> Num(p + 100), bb_lower |-> Num(p - 100), bb_middle |-> Num(p),
     stoch_k |-> Num(10000), stoch_d |-> Num(50000)]

\* the cleaned series the tabular path is run on
Markets ==
    {MkMarket(1000, lows, <<1100, 1003>>, t, r) :
        lows \in {<<900, 995>>, <<1000, 1000>>},
        t \in {x \in TrendCases : ~x.sma_50.nan /\ (x.sma_20.v > x.sma_50.v <=> x.ema_12.v > x.ema_26.v)},
        r \in {Num(75000)}}

CsvFiles ==
    {[readable |-> FALSE]}
    \cup {[readable |-> TRUE, header |-> h, rows |-> rc, mkt |-> mk] :
            h \in Headers, rc \in RowCounts, mk \in Markets}

Segments ==
    { <<0, 0, 100, 0>>, <<0, 0, 100, 100>>, <<0, 100, 100, 0>>,
      <<0, 0, 100, 18>>, <<0, 18, 100, 0>> }

LineLists == UNION {[1..k -> Segments] : k \in 0..MaxLines}

ImageFiles ==
    {[readable |-> FALSE]}
    \cup {[readable |-> TRUE, cv_error |-> e, lines |-> ls] : e \in BOOLEAN, ls \in LineLists}

\* values np.random.uniform(1800, 2100) can return, in thousandths
BasePrices == {1800000, 1950005, 2099999}

\* numpy's global generator: a state, the value uniform(1800, 2100) returns
\* in it, and the state the draw leaves behind.  The generator is seeded from
\* the operating system when numpy is imported.
RandomStates == 1..Cardinality(BasePrices)

random_uniform(state) ==
    CHOOSE x \in BasePrices : Cardinality({y \in BasePrices : y < x}) = state - 1

random_advance(state) == (state % Cardinality(BasePrices)) + 1

\* TechnicalAnalyzer.__init__, line 14: self.indicators = {}
EmptyDict == <<>>

\* no request has reached the service
NoUploads == <<>>

ServiceIdle ==
    /\ uploads = NoUploads
    /\ clock = 0
    /\ workers = <<>>
    /\ saved = <<>>

ProcessStart ==
    /\ random_state \in RandomStates
    /\ indicators = EmptyDict
    /\ log = <<>>

Requests ==
    {[kind |-> "csv", file |-> f, timeframe |-> tf] : f \in CsvFiles, tf \in Timeframes}
    \cup {[kind |-> "image", file |-> f, timeframe |-> tf] : f \in ImageFiles, tf \in Timeframes}

NoResult == [analysis_type |-> "none"]

NoPrev == [kind |-> "none"]

(***************************************************************************)
(* The calls.  A behaviour is one call on one input: pc goes from "ready"  *)
(* to "done", res is the returned dict, calls the library and helper calls *)
(* made, loc the locals of the scoring function at its return.             *)
(***************************************************************************)
Init ==
    /\ pc = "ready"
    /\ req \in Requests
    /\ res = NoResult
    /\ calls = <<>>
    /\ loc = NoLocals
    /\ prev = NoPrev
    /\ ProcessStart
    /\ req.kind = "csv" => random_state = 1
    /\ ServiceIdle

AnalyzeCsv ==
    /\ pc = "ready"
    /\ req.kind = "csv"
    /\ LET r == analyze_csv_data(req.file, req.timeframe)
       IN  /\ res' = r.result
           /\ calls' = r.calls
           /\ loc' = r.locals
    /\ pc' = "done"
    /\ UNCHANGED <<req, prev, process, service>>

AnalyzeImage ==
    /\ pc = "ready"
    /\ req.kind = "image"
    /\ LET r == analyze_chart_image(req.file, req.timeframe, random_uniform(random_state))
       IN  /\ res' = r.result
           /\ calls' = r.calls
           /\ loc' = r.locals
           /\ random_state' = IF "_generate_image_based_signal" \in Range(r.calls)
                               THEN random_advance(random_state) ELSE random_state
    /\ pc' = "done"
    /\ UNCHANGED <<req, prev, indicators, log, service>>

Next == AnalyzeCsv \/ AnalyzeImage

Spec == Init /\ [][Next]_vars

\* the image path alone: one call of analyze_chart_image on one image file
InitImage ==
    /\ pc = "ready"
    /\ req \in {[kind |-> "image", file |-> f, timeframe |-> tf] :
                   f \in ImageFiles, tf \in Timeframes}
    /\ res = NoResult
    /\ calls = <<>>
    /\ loc = NoLocals
    /\ prev = NoPrev
    /\ ProcessStart
    /\ ServiceIdle

NextImage == AnalyzeImage

SpecImage == InitImage /\ [][NextImage]_vars

\* a sequence of calls on the analyzer of the process, as the handlers of
\* main.py make them on the module-level instance: log keeps every call with
\* its request, its result and the generator state it started in
MaxCalls == 3

CallTimeframes == {"1h", "5m"}

PlainHeader == << <<"o">>, <<"h">>, <<"l">>, <<"c">> >>

CallMarket ==
    MkMarket(1000, <<900, 995>>, <<1100, 1003>>,
             [sma_20 |-> Num(1010), sma_50 |-> Num(1000),
              ema_12 |-> Num(1012), ema_26 |-> Num(1005)], Num(75000))

CallCsvFiles ==
    {[readable |-> FALSE],
     [readable |-> TRUE, header |-> PlainHeader, rows |-> [num |-> 50, bad |-> 0],
      mkt |-> CallMarket],
     [readable |-> TRUE, header |-> PlainHeader, rows |-> [num |-> 20, bad |-> 1],
      mkt |-> CallMarket],
     [readable |-> TRUE, header |-> <<<<"O", "p", "e", "n">>>> \o PlainHeader,
      rows |-> [num |-> 20, bad |-> 0], mkt |-> CallMarket]}

CallImageFiles ==
    {[readable |-> FALSE],
     [readable |-> TRUE, cv_error |-> TRUE, lines |-> <<>>],
     [readable |-> TRUE, cv_error |-> FALSE, lines |-> <<>>],
     [readable |-> TRUE, cv_error |-> FALSE, lines |-> << <<0, 0, 100, 100>> >>]}

NoRequest == [kind |-> "none"]

InitCalls ==
    /\ pc = "ready"
    /\ req = NoRequest
    /\ res = NoResult
    /\ calls = <<>>
    /\ loc = NoLocals
    /\ prev = NoPrev
    /\ ProcessStart
    /\ ServiceIdle

CallAnalyzeCsv ==
    /\ Len(log) < MaxCalls
    /\ \E f \in CallCsvFiles, tf \in CallTimeframes :
          LET r == analyze_csv_data(f, tf)
              q == [kind |-> "csv", file |-> f, timeframe |-> tf]
          IN  /\ req' = q
              /\ res' = r.result
              /\ calls' = r.calls
              /\ loc' = r.locals
              /\ log' = Append(log, [req |-> q, res |-> r.result, state |-> random_state])
    /\ pc' = "done"
    /\ UNCHANGED <<prev, random_state, indicators, service>>

CallAnalyzeImage ==
    /\ Len(log) < MaxCalls
    /\ \E f \in CallImageFiles, tf \in CallTimeframes :
          LET r == analyze_chart_image(f, tf, random_uniform(random_state))
              q == [kind |-> "image", file |-> f, timeframe |-> tf]
          IN  /\ req' = q
              /\ res' = r.result
              /\ calls' = r.calls
              /\ loc' = r.locals
              /\ log' = Append(log, [req |-> q, res |-> r.result, state |-> random_state])
              /\ random_state' = IF "_generate_image_based_signal" \in Range(r.calls)
                                  THEN random_advance(random_state) ELSE random_state
    /\ pc' = "done"
    /\ UNCHANGED <<prev, indicators, service>>

NextCalls == CallAnalyzeCsv \/ CallAnalyzeImage

SpecCalls == InitCalls /\ [][NextCalls]_vars

(***************************************************************************)
(* The /analyze/ handler of src/main.py, lines 64-141.  A file name is a   *)
(* sequence of characters, an upload path the pair <<timestamp, name>> of  *)
(* f"{timestamp}_{file.filename}" (the timestamp has no underscore, so the *)
(* pair and the string determine each other), uploads the directory        *)
(* UPLOAD_DIR as a function from paths to file contents.  The handler is a *)
(* coroutine without an await: inside one event loop it runs from start to *)
(* end.  The requests of the model run on different server workers         *)
(* (processes serving the same app and the same UPLOAD_DIR), so the steps  *)
(* of two handlers interleave at the file system calls.  Each worker has   *)
(* its own random generator, whose state is a free choice here.            *)
(***************************************************************************)
\* file.filename.split(".")[-1]
split_last(s, sep) ==
    LET dots == {i \in DOMAIN s : s[i] = sep}
    IN  IF dots = {} THEN s
        ELSE SubSeq(s, (CHOOSE i \in dots : \A j \in dots : j <= i) + 1, Len(s))

\* line 76
file_ext(filename) == str_lower(split_last(filename, "."))

e_jpg == <<"j", "p", "g">>
e_jpeg == <<"j", "p", "e", "g">>
e_png == <<"p", "n", "g">>
e_csv == <<"c", "s", "v">>

\* line 77
supported_ext == {e_jpg, e_jpeg, e_png, e_csv}

\* line 81
valid_timeframes == {"1m", "5m", "15m", "30m", "1h", "4h", "1d"}

\* lines 73-83: the HTTPException the validation raises, or "ok"
validate(filename, timeframe) ==
    IF filename = <<>> THEN [status |-> 400, detail |-> "No file provided"]
    ELSE IF file_ext(filename) \notin supported_ext
    THEN [status |-> 400, detail |-> "Unsupported file type. Use JPG, PNG, or CSV."]
    ELSE IF timeframe \notin valid_timeframes
    THEN [status |-> 400, detail |-> "Invalid timeframe. Use: 1m, 5m, 15m, 30m, 1h, 4h, 1d"]
    ELSE [status |-> 0, detail |-> "ok"]

\* lines 86-88
upload_path(timestamp, filename) == <<timestamp, filename>>

\* line 90: open(file_path, "wb") fails when the name leads into a directory
\* that does not exist
open_fails(filename) == "/" \in Range(filename)

\* what the analyzer finds at a path: the content, or no file
file_at(dir, path) == IF path \in DOMAIN dir THEN dir[path] ELSE [readable |-> FALSE]

\* lines 94-97
run_analysis(ext, file, timeframe, state) ==
    IF ext = e_csv THEN analyze_csv_data(file, timeframe)
    ELSE analyze_chart_image(file, timeframe, random_uniform(state))

\* os.remove(file_path) inside try/except: pass, lines 125-128
remove_file(dir, path) == [q \in DOMAIN dir \ {path} |-> dir[q]]

\* open(file_path, "wb") and shutil.copyfileobj, lines 90-91
write_file(dir, path, content) ==
    [q \in DOMAIN dir \cup {path} |-> IF q = path THEN content ELSE dir[q]]

\* most seconds the clock advances
MaxClock == 1

Workers == {"w1", "w2"}

n_a_csv == <<"a", ".", "c", "s", "v">>
n_a_png == <<"a", ".", "P", "N", "G">>
n_csv == <<"c", "s", "v">>
n_a_txt == <<"a", ".", "t", "x", "t">>
n_dir_csv == <<"d", "/", "a", ".", "c", "s", "v">>

FileNames == {<<>>, n_a_csv, n_a_png, n_csv, n_a_txt, n_dir_csv}

HttpTimeframes == {"1h", "2h"}

\* what is uploaded under a csv name: a table of 50 rows, a table of 19 rows
HttpCsvContents ==
    {[readable |-> TRUE, header |-> PlainHeader, rows |-> [num |-> 50, bad |-> 0],
      mkt |-> CallMarket],
     [readable |-> TRUE, header |-> PlainHeader, rows |-> [num |-> 19, bad |-> 0],
      mkt |-> CallMarket]}

\* what is uploaded under an image name: a chart with a rising line, a file
\* that is no image
HttpImageContents ==
    {[readable |-> TRUE, cv_error |-> FALSE, lines |-> << <<0, 0, 100, 100>> >>],
     [readable |-> FALSE]}

HttpRequests ==
    {[filename |-> n, timeframe |-> tf, content |-> c] :
        n \in {x \in FileNames : file_ext(x) = e_csv}, tf \in HttpTimeframes,
        c \in HttpCsvContents}
    \cup {[filename |-> n, timeframe |-> tf, content |-> c] :
        n \in {x \in FileNames : file_ext(x) # e_csv}, tf \in HttpTimeframes,
        c \in HttpImageContents}

NoPath == <<>>

NoFile == [readable |-> FALSE, missing |-> TRUE]

NoResponse == [status |-> 0, detail |-> "none"]

\* a worker: its position in the handler, the request, the local file_path,
\* the returned analysis_result and the response; wrote and analysed record
\* whether line 90 was executed and which content the analyzer was run on
IdleWorker ==
    [pc |-> "idle", request |-> NoRequest, file_path |-> NoPath, wrote |-> FALSE,
     analysed |-> NoFile, analysis_result |-> NoResult, response |-> NoResponse]

InitHttp ==
    /\ pc = "ready"
    /\ req = NoRequest
    /\ res = NoResult
    /\ calls = <<>>
    /\ loc = NoLocals
    /\ prev = NoPrev
    /\ ProcessStart /\ random_state = 1
    /\ uploads = NoUploads
    /\ clock = 0
    /\ workers = [w \in Workers |-> IdleWorker]
    /\ saved = <<>>

core == <<pc, req, res, calls, loc, prev>>

\* a request arrives at a worker
Receive(w) ==
    /\ workers[w].pc = "idle"
    /\ \E r \in HttpRequests :
          workers' = [workers EXCEPT ![w].pc = "validate", ![w].request = r]
    /\ UNCHANGED <<core, process, uploads, clock, saved>>

\* lines 72-83
Validate(w) ==
    /\ workers[w].pc = "validate"
    /\ LET v == validate(workers[w].request.filename, workers[w].request.timeframe)
       IN  workers' = IF v.status = 400
                      THEN [workers EXCEPT ![w].pc = "responded", ![w].response = v]
                      ELSE [workers EXCEPT ![w].pc = "save"]
    /\ UNCHANGED <<core, process, uploads, clock, saved>>

\* lines 85-91, and lines 140-141 when open raises
SaveUpload(w) ==
    /\ workers[w].pc = "save"
    /\ LET path == upload_path(clock, workers[w].request.filename)
       IN  IF open_fails(workers[w].request.filename)
           THEN /\ workers' = [workers EXCEPT
                                 ![w].pc = "responded",
                                 ![w].file_path = path,
                                 ![w].response = [status |-> 500,
                                                  detail |-> "Analysis failed: No such file or directory"]]
                /\ UNCHANGED uploads
           ELSE /\ uploads' = write_file(uploads, path, workers[w].request.content)
                /\ workers' = [workers EXCEPT ![w].pc = "analyze", ![w].file_path = path,
                                              ![w].wrote = TRUE]
    /\ UNCHANGED <<core, process, clock, saved>>

\* lines 93-101
Analyze(w) ==
    /\ workers[w].pc = "analyze"
    /\ \E state \in RandomStates :
          LET file == file_at(uploads, workers[w].file_path)
              r == run_analysis(file_ext(workers[w].request.filename), file,
                                workers[w].request.timeframe, state).result
              seen == IF workers[w].file_path \in DOMAIN uploads THEN file ELSE NoFile
          IN  workers' =
                IF "error" \in DOMAIN r /\ r.error
                THEN [workers EXCEPT ![w].pc = "responded", ![w].analysed = seen,
                                     ![w].analysis_result = r,
                                     ![w].response = [status |-> 400, detail |-> r.message]]
                ELSE [workers EXCEPT ![w].pc = "persist", ![w].analysed = seen,
                                     ![w].analysis_result = r]
    /\ UNCHANGED <<core, process, uploads, clock, saved>>

\* lines 103-122: save_signal returns True, or False when the database fails
SaveSignal(w) ==
    /\ workers[w].pc = "persist"
    /\ \E signal_saved \in BOOLEAN :
          /\ saved' = IF signal_saved
                       THEN Append(saved, [worker |-> w, signal |-> workers[w].analysis_result])
                       ELSE saved
          /\ workers' = [workers EXCEPT ![w].pc = "cleanup"]
    /\ UNCHANGED <<core, process, uploads, clock>>

\* lines 124-136
CleanUp(w) ==
    /\ workers[w].pc = "cleanup"
    /\ uploads' = remove_file(uploads, workers[w].file_path)
    /\ workers' = [workers EXCEPT ![w].pc = "responded",
                                  ![w].response = [status |-> 200, detail |-> "signal"]]
    /\ UNCHANGED <<core, process, clock, saved>>

\* time.time() moves to the next second
Tick ==
    /\ clock < MaxClock
    /\ clock' = clock + 1
    /\ UNCHANGED <<core, process, uploads, workers, saved>>

NextHttp ==
    \/ \E w \in Workers : Receive(w)
    \/ \E w \in Workers : Validate(w)
    \/ \E w \in Workers : SaveUpload(w)
    \/ \E w \in Workers : Analyze(w)
    \/ \E w \in Workers : SaveSignal(w)
    \/ \E w \in Workers : CleanUp(w)
    \/ Tick

SpecHttp == InitHttp /\ [][NextHttp]_vars

\* the scoring function alone, applied to one argument record
InitScore ==
    /\ pc = "ready"
    /\ \E i \in DOMAIN PriceList, j \in DOMAIN SupportList, k \in DOMAIN ResistanceList :
       \E t \in TrendCases, r \in RsiCases, m \in MacdCases, b \in BandCases,
          st \in StochCases, tf \in Timeframes :
          req = [kind |-> "score",
                 args |-> MkArgs(PriceList[i], Scaled(PriceList[i], SupportList[j]),
                                 Scaled(PriceList[i], ResistanceList[k]), t, r, m, b, st),
                 timeframe |-> tf]
    /\ res = NoResult
    /\ calls = <<>>
    /\ loc = NoLocals
    /\ prev = NoPrev
    /\ ProcessStart /\ random_state = 1
    /\ ServiceIdle

GenerateSignal ==
    /\ pc = "ready"
    /\ req.kind = "score"
    /\ res' = generate_signal_from_indicators(req.args, req.timeframe)
    /\ loc' = signal_locals(req.args)
    /\ calls' = <<"_generate_signal_from_indicators">>
    /\ pc' = "done"
    /\ UNCHANGED <<req, prev, process, service>>

NextScore == GenerateSignal

SpecScore == InitScore /\ [][NextScore]_vars

\* two applications of the scoring function, one after the other: prev keeps
\* the first call
PairInputs ==
    {MkArgs(1000, sup, 1100, t, r, m, b, st) :
        sup \in {900, 1000},
        t \in {x \in TrendCases : ~x.sma_50.nan},
        r \in {Num(25000), Num(30000), Num(75000)},
        m \in {x \in MacdCases : ~x.macd_signal.nan /\ x.macd_signal.v < 500},
        b \in {x \in BandCases : x.lower # 0 - 100},
        st \in {x \in StochCases : x.stoch_d.v # 50000}}

InitPair ==
    /\ pc = "ready"
    /\ req \in {[kind |-> "score", args |-> a, timeframe |-> tf] :
                   a \in PairInputs, tf \in Timeframes}
    /\ res = NoResult
    /\ calls = <<>>
    /\ loc = NoLocals
    /\ prev = NoPrev
    /\ ProcessStart /\ random_state = 1
    /\ ServiceIdle

GenerateSignalAgain ==
    /\ pc = "done"
    /\ req.kind = "score"
    /\ prev = NoPrev
    /\ \E a \in PairInputs :
          /\ req' = [kind |-> "score", args |-> a, timeframe |-> req.timeframe]
          /\ res' = generate_signal_from_indicators(a, req.timeframe)
          /\ loc' = signal_locals(a)
    /\ prev' = [kind |-> "score", req |-> req, res |-> res, loc |-> loc]
    /\ calls' = Append(calls, "_generate_signal_from_indicators")
    /\ pc' = "done"
    /\ UNCHANGED <<process, service>>

NextPair == GenerateSignal \/ GenerateSignalAgain

SpecPair == InitPair /\ [][NextPair]_vars

(***************************************************************************)
(* Properties                                                              *)
(***************************************************************************)
CsvDone == pc = "done" /\ req.kind = "csv"

ScoreDone == pc = "done" /\ req.kind = "score"

\* a readable CSV file whose normalized header has open, high, low and close
TableWithRequiredCols ==
    CsvDone /\ req.file.readable /\ has_required_cols(df_columns(req.file.header))

Scored == "_generate_signal_from_indicators" \in Range(calls)

\* C1: every table that has the four required columns after normalization
\* and at least 20 rows with four numeric prices is answered with a
\* technical_indicators result, never with an error result.
C1_ValidTableNeverError ==
    (TableWithRequiredCols /\ req.file.rows.num >= 20)
        => (res.analysis_type = "technical_indicators" /\ "error" \notin DOMAIN res)

\* C2: a table with the four required columns and fewer than 20 rows left
\* after the rows with a missing or non-numeric price are dropped is answered
\* with the insufficient-data error, and neither the indicators nor the
\* scoring are computed.
C2_TooFewRowsInsufficient ==
    (TableWithRequiredCols /\ req.file.rows.num < 20)
        => /\ res.analysis_type = "error"
           /\ res.message = MsgInsufficient
           /\ "_calculate_indicators" \notin Range(calls)
           /\ ~Scored

\* the header is exactly the four synonyms o, h, l, c
SynonymHeader == req.file.header = << <<"o">>, <<"h">>, <<"l">>, <<"c">> >>

\* C3: a table whose normalized header lacks one of open, high, low, close is
\* answered with the invalid-format error whatever its row count; a header
\* made of the synonyms o, h, l, c alone is not answered with that error.
C3_MissingColumnInvalidFormat ==
    (CsvDone /\ req.file.readable)
        => /\ (\E k \in DOMAIN required_cols :
                   required_cols[k] \notin Range(df_columns(req.file.header)))
                => (res.analysis_type = "error" /\ res.message = MsgInvalidFormat)
           /\ SynonymHeader
                => (res.analysis_type # "error" \/ res.message # MsgInvalidFormat)

C3_Witness ==
    /\ CsvDone /\ req.file.readable
    /\ n_low \notin Range(df_columns(req.file.header))
    /\ {n_open, n_high, n_close} \subseteq Range(df_columns(req.file.header))
    /\ req.file.rows.num >= 20
    /\ res.message = MsgInvalidFormat

\* what the call had to fail on
Failure ==
    \/ ~req.file.readable
    \/ req.kind = "image" /\ req.file.cv_error
    \/ req.kind = "csv" /\ ~has_required_cols(df_columns(req.file.header))
    \/ req.kind = "csv" /\ to_numeric_raises(df_columns(req.file.header))
    \/ req.kind = "csv" /\ req.file.rows.num < 20

IsErrorSignal(r) ==
    /\ DOMAIN r = {"error", "message", "action", "entry", "take_profit", "stop_loss",
                   "confidence", "analysis_type"}
    /\ r.error = TRUE
    /\ r.analysis_type = "error"
    /\ r.entry = 0 /\ r.take_profit = 0 /\ r.stop_loss = 0
    /\ r.confidence = "0%"
    /\ r.action = "HOLD"
    /\ r.message # ""

\* C4: every call of analyze_csv_data or analyze_chart_image returns a dict,
\* no exception leaves it; a call that fails returns the error signal (type
\* error, zero prices, confidence 0%, HOLD, a message), a call that does not
\* fail returns no error signal; the file is read once, there is no retry.
C4_FailuresBecomeErrorSignal ==
    (pc = "done" /\ req.kind \in {"csv", "image"})
        => /\ res.analysis_type \in {"technical_indicators", "chart_pattern", "error"}
           /\ Failure <=> IsErrorSignal(res)
           /\ Failure <=> res.analysis_type = "error"
           /\ Count(calls, "read_csv") + Count(calls, "imread") = 1

\* an exception raised inside the try block was turned into the error signal
C4_Witness ==
    /\ CsvDone /\ req.file.readable
    /\ to_numeric_raises(df_columns(req.file.header))
    /\ IsErrorSignal(res)
    /\ res.message = MsgCsvFailed \o "arg must be a list, tuple, 1-d array, or Series"

\* C5: the action follows from the numbers of BUY and SELL votes alone: BUY
\* exactly when there are more BUY votes, SELL exactly when there are more
\* SELL votes, HOLD exactly when the two numbers are equal (zero included).
C5_ActionFromVoteCounts ==
    ScoreDone
        => LET b == Count(loc.signals, "BUY")
               s == Count(loc.signals, "SELL")
           IN  /\ Len(loc.signals) = b + s
               /\ res.action = "BUY" <=> b > s
               /\ res.action = "SELL" <=> s > b
               /\ res.action = "HOLD" <=> b = s

\* one vote each way, the BUY vote with the larger weight: HOLD all the same
C5_Witness ==
    /\ ScoreDone
    /\ loc.signals = <<"BUY", "SELL">>
    /\ loc.confidence_factors = <<25, 10>>
    /\ res.action = "HOLD"

\* only the trend rule and the RSI rule vote, both BUY
TrendAndRsiBuyOnly ==
    /\ trend_vote(req.args) = "BUY" /\ rsi_vote(req.args) = "BUY"
    /\ macd_vote(req.args) = "NONE" /\ bollinger_vote(req.args) = "NONE"
    /\ stochastic_vote(req.args) = "NONE" /\ proximity_vote(req.args) = "NONE"

\* C6: the confidence is min(95, 60 + 8 * votes of the winning side) for BUY
\* and SELL and 50 for HOLD, is returned as the string "N%" and never exceeds
\* 95; BUY votes from trend and RSI alone give BUY with 76%.
C6_ConfidenceFromWinningVotes ==
    ScoreDone
        => LET b == Count(loc.signals, "BUY")
               s == Count(loc.signals, "SELL")
               n == IF b > s THEN Min2(95, 60 + 8 * b)
                    ELSE IF s > b THEN Min2(95, 60 + 8 * s) ELSE 50
           IN  /\ loc.confidence = n
               /\ res.confidence = ToString(n) \o "%"
               /\ loc.confidence <= 95
               /\ TrendAndRsiBuyOnly => (res.action = "BUY" /\ res.confidence = "76%")

C6_Witness ==
    /\ ScoreDone /\ TrendAndRsiBuyOnly
    /\ loc.signals = <<"BUY", "BUY">>
    /\ res.confidence = "76%"

Max2(x, y) == IF x >= y THEN x ELSE y

\* C7: entry is the current close; BUY: take_profit = min(resistance,
\* entry * 1.02), stop_loss = max(support, entry * 0.985); SELL: take_profit =
\* max(support, entry * 0.98), stop_loss = min(resistance, entry * 1.015);
\* HOLD: both equal entry.  The returned values are these rounded to 2 places.
C7_TargetsFromAction ==
    ScoreDone
        => LET e == req.args.current_price.v
               sup == req.args.support.v
               rst == req.args.resistance.v
               tp == CASE res.action = "BUY" -> Min2(rst * 1000, e * 1020)
                       [] res.action = "SELL" -> Max2(sup * 1000, e * 980)
                       [] res.action = "HOLD" -> e * 1000
               sl == CASE res.action = "BUY" -> Max2(sup * 1000, e * 985)
                       [] res.action = "SELL" -> Min2(rst * 1000, e * 1015)
                       [] res.action = "HOLD" -> e * 1000
           IN  /\ loc.entry = e
               /\ loc.take_profit = tp
               /\ loc.stop_loss = sl
               /\ res.entry = round2_micro(e * 1000)
               /\ res.take_profit = round2_micro(tp)
               /\ res.stop_loss = round2_micro(sl)

\* a SELL whose take_profit is the support and whose stop_loss is the
\* resistance, not the percentages
C7_Witness ==
    /\ ScoreDone /\ res.action = "SELL"
    /\ loc.take_profit = req.args.support.v * 1000
    /\ loc.take_profit > loc.entry * 980
    /\ loc.stop_loss = req.args.resistance.v * 1000
    /\ loc.stop_loss < loc.entry * 1015

BuyCase ==
    /\ ScoreDone /\ res.action = "BUY"
    /\ req.args.current_price.v * 985 > 0
    /\ req.args.resistance.v > req.args.current_price.v

\* C8 as stated: every BUY with entry * 0.985 > 0 and resistance > entry
\* returns stop_loss < entry < take_profit, whatever the support.
C8_BuyStrictOrder ==
    BuyCase => (res.stop_loss < res.entry /\ res.entry < res.take_profit)

\* C8 amended: every BUY with entry * 0.985 > 0, resistance > entry and
\* support <= entry returns stop_loss <= entry <= take_profit; before the
\* rounding to 2 places, entry < take_profit, and stop_loss < entry when
\* support < entry.
C8_BuyOrder ==
    (BuyCase /\ req.args.support.v <= req.args.current_price.v)
        => /\ res.stop_loss <= res.entry /\ res.entry <= res.take_profit
           /\ loc.entry * 1000 < loc.take_profit
           /\ loc.stop_loss <= loc.entry * 1000
           /\ req.args.support.v < req.args.current_price.v
                => loc.stop_loss < loc.entry * 1000

\* a BUY whose support is the entry: the stop_loss is the entry
C8_Witness ==
    /\ BuyCase
    /\ req.args.support.v = req.args.current_price.v
    /\ res.stop_loss = res.entry
    /\ res.entry < res.take_profit

SellCase == ScoreDone /\ res.action = "SELL"

\* C9 as stated: every SELL returns take_profit < entry < stop_loss, whatever
\* the support and the resistance.
C9_SellStrictOrder ==
    SellCase => (res.take_profit < res.entry /\ res.entry < res.stop_loss)

\* C9 amended: every SELL with entry >= 0 and support <= entry <= resistance
\* returns take_profit <= entry <= stop_loss; before the rounding to 2
\* places the two are strict when entry > 0 and support < entry < resistance.
C9_SellOrder ==
    (/\ SellCase
     /\ req.args.current_price.v >= 0
     /\ req.args.support.v <= req.args.current_price.v
     /\ req.args.current_price.v <= req.args.resistance.v)
        => /\ res.take_profit <= res.entry /\ res.entry <= res.stop_loss
           /\ loc.take_profit <= loc.entry * 1000
           /\ loc.entry * 1000 <= loc.stop_loss
           /\ (/\ req.args.current_price.v > 0
               /\ req.args.support.v < req.args.current_price.v
               /\ req.args.current_price.v < req.args.resistance.v)
                => (loc.take_profit < loc.entry * 1000 /\ loc.entry * 1000 < loc.stop_loss)

\* a SELL at a positive price that is the resistance: the stop_loss is the
\* entry
C9_Witness ==
    /\ SellCase
    /\ req.args.current_price.v > 0
    /\ req.args.support.v < req.args.current_price.v
    /\ req.args.current_price.v = req.args.resistance.v
    /\ res.take_profit < res.entry /\ res.entry = res.stop_loss

PairDone == pc = "done" /\ prev # NoPrev

\* C10: of two inputs with the same number of SELL votes that both give BUY,
\* the one with more BUY votes has a confidence at least that of the other.
C10_MoreBuyVotesNotLessConfident ==
    (/\ PairDone
     /\ prev.res.action = "BUY" /\ res.action = "BUY"
     /\ prev.loc.sell_signals = loc.sell_signals
     /\ loc.buy_signals > prev.loc.buy_signals)
        => /\ loc.confidence >= prev.loc.confidence
           /\ res.confidence = ToString(loc.confidence) \o "%"
           /\ prev.res.confidence = ToString(prev.loc.confidence) \o "%"

\* one SELL vote each, two BUY votes then three: 76% then 84%
C10_Witness ==
    /\ PairDone
    /\ prev.res.action = "BUY" /\ res.action = "BUY"
    /\ prev.loc.sell_signals = 1 /\ loc.sell_signals = 1
    /\ prev.loc.buy_signals = 2 /\ loc.buy_signals = 3
    /\ prev.res.confidence = "76%" /\ res.confidence = "84%"

\* analyze_chart_image returned the dict of _generate_image_based_signal
ImageSignal == pc = "done" /\ req.kind = "image" /\ res.analysis_type = "chart_pattern"

\* C12: in the pattern-based scoring the action and the confidence follow
\* from the pattern flags alone, whatever base price is sampled: bullish
\* gives BUY and 75, bearish gives SELL and 75, neither gives HOLD and 60.
C12_ActionFromPatternFlags ==
    ImageSignal
        => /\ res.patterns.bullish_pattern
                => (res.action = "BUY" /\ loc.confidence = 75 /\ res.confidence = "75%")
           /\ res.patterns.bearish_pattern
                => (res.action = "SELL" /\ loc.confidence = 75 /\ res.confidence = "75%")
           /\ (~res.patterns.bullish_pattern /\ ~res.patterns.bearish_pattern)
                => (res.action = "HOLD" /\ loc.confidence = 60 /\ res.confidence = "60%")

\* the angles of three lines are 45, 0 and 0 degrees, mean 15: bullish, BUY
\* with 75%, here at the highest base price
C12_Witness ==
    /\ ImageSignal
    /\ req.file.lines = << <<0, 0, 100, 100>>, <<0, 0, 100, 0>>, <<0, 0, 100, 0>> >>
    /\ res.patterns.bullish_pattern
    /\ res.action = "BUY" /\ res.confidence = "75%"
    /\ loc.entry = 2099999

\* the sum of the angles of the detected lines, in thousandths of a degree
AngleSum ==
    SeqSum([i \in DOMAIN req.file.lines |->
               arctan2_deg(req.file.lines[i][4] - req.file.lines[i][2],
                           req.file.lines[i][3] - req.file.lines[i][1])])

\* C13: the detector sets bullish exactly when the mean angle of the lines
\* is above 10 degrees and bearish exactly when it is below -10 degrees, so
\* a mean in [-10, 10] sets neither; no line gives both flags false and a
\* line count of 0; the two flags are never both true.
C13_FlagsFromMeanAngle ==
    ImageSignal
        => LET n == Len(req.file.lines)
               p == res.patterns
           IN  /\ p.trend_lines = n
               /\ n = 0 => (~p.bullish_pattern /\ ~p.bearish_pattern)
               /\ n > 0 => /\ p.bullish_pattern <=> AngleSum > 10000 * n
                           /\ p.bearish_pattern <=> AngleSum < (0 - 10000) * n
               /\ ~(p.bullish_pattern /\ p.bearish_pattern)

\* two lines of 10.204 and 0 degrees, mean 5.102: neither flag
C13_Witness ==
    /\ ImageSignal
    /\ req.file.lines = << <<0, 0, 100, 18>>, <<0, 0, 100, 0>> >>
    /\ res.patterns = [trend_lines |-> 2, bullish_pattern |-> FALSE,
                        bearish_pattern |-> FALSE]

\* C14: in the image path entry is the sampled base price, within
\* [1800, 2100]; BUY has take_profit = entry * 1.025 and stop_loss = entry *
\* 0.985, SELL has take_profit = entry * 0.975 and stop_loss = entry * 1.015,
\* HOLD has both equal to entry; so a BUY returns stop_loss < entry <
\* take_profit and a SELL returns take_profit < entry < stop_loss.  (The
\* levels are counted in 1/200 of the unit of entry: 205/200 = 1.025.)
C14_ImageLevels ==
    ImageSignal
        => /\ loc.entry \in BasePrices
           /\ loc.entry >= 1800000 /\ loc.entry <= 2100000
           /\ res.entry = round2_fine(loc.entry * 200)
           /\ res.take_profit = round2_fine(loc.take_profit)
           /\ res.stop_loss = round2_fine(loc.stop_loss)
           /\ res.action = "BUY"
                => /\ loc.take_profit = loc.entry * 205
                   /\ loc.stop_loss = loc.entry * 197
                   /\ res.stop_loss < res.entry /\ res.entry < res.take_profit
           /\ res.action = "SELL"
                => /\ loc.take_profit = loc.entry * 195
                   /\ loc.stop_loss = loc.entry * 203
                   /\ res.take_profit < res.entry /\ res.entry < res.stop_loss
           /\ res.action = "HOLD"
                => /\ loc.take_profit = loc.entry * 200
                   /\ loc.stop_loss = loc.entry * 200
                   /\ res.take_profit = res.entry /\ res.stop_loss = res.entry

\* a SELL at the lowest base price, 1800.00: take_profit 1755.00, stop_loss
\* 1827.00
C14_Witness ==
    /\ ImageSignal /\ res.action = "SELL"
    /\ res.entry = 180000
    /\ res.take_profit = 175500
    /\ res.stop_loss = 182700

\* analyze_csv_data handed a cleaned series of 20 to 49 rows to
\* _calculate_indicators
ShortSeries ==
    /\ CsvDone
    /\ "_calculate_indicators" \in Range(calls)
    /\ req.file.rows.num \in 20..49

\* the arguments of the scoring for the series of the request, and what they
\* are once every window is filled (50 rows)
SeriesArgs == indicator_args(req.file.rows.num, req.file.mkt)

FilledArgs == indicator_args(50, req.file.mkt)

\* the votes of the rules other than the trend rule, in the order of the code
VotesAfterTrend(a) ==
    SelectSeq(<<rsi_vote(a), macd_vote(a), bollinger_vote(a), stochastic_vote(a),
                proximity_vote(a)>>, LAMBDA v : v # "NONE")

\* C15: for a valid series of 20 to 49 candles sma_50 is undefined (NaN);
\* the trend rule then casts no vote, so does every rule with an undefined
\* indicator (MACD below 34 candles), the rules whose indicators are defined
\* vote as they do on the filled windows, and the result is a
\* technical_indicators signal, not an error.
C15_UndefinedIndicatorNoVote ==
    ShortSeries
        => /\ res.analysis_type = "technical_indicators"
           /\ "error" \notin DOMAIN res
           /\ SeriesArgs.sma_50.nan /\ res.indicators.sma_50.nan
           /\ trend_vote(SeriesArgs) = "NONE"
           /\ loc.signals = VotesAfterTrend(SeriesArgs)
           /\ rsi_vote(SeriesArgs) = rsi_vote(FilledArgs)
           /\ bollinger_vote(SeriesArgs) = bollinger_vote(FilledArgs)
           /\ stochastic_vote(SeriesArgs) = stochastic_vote(FilledArgs)
           /\ proximity_vote(SeriesArgs) = proximity_vote(FilledArgs)
           /\ macd_vote(SeriesArgs) =
                  (IF SeriesArgs.macd.nan \/ SeriesArgs.macd_signal.nan
                   THEN "NONE" ELSE macd_vote(FilledArgs))

\* 20 candles in an up trend that would vote BUY with 50 candles: only the
\* RSI (SELL) and the proximity to the support (BUY) vote, the action is HOLD
C15_Witness ==
    /\ ShortSeries
    /\ req.file.rows.num = 20
    /\ trend_vote(FilledArgs) = "BUY"
    /\ macd_vote(FilledArgs) = "BUY"
    /\ loc.signals = <<"SELL", "BUY">>
    /\ res.action = "HOLD"
    /\ res.analysis_type = "technical_indicators"

\* the votes of the five rules before the proximity rule, NONE for no vote
FirstFiveVotes ==
    <<trend_vote(req.args), rsi_vote(req.args), macd_vote(req.args),
      bollinger_vote(req.args), stochastic_vote(req.args)>>

\* the price is within 1% of the support and within 1% of the resistance
NearBoth ==
    /\ req.args.current_price.v > 0
    /\ Abs(req.args.current_price.v - req.args.support.v) * 100 < req.args.current_price.v
    /\ Abs(req.args.current_price.v - req.args.resistance.v) * 100 < req.args.current_price.v

\* C19: in one evaluation of the scoring each of the six rules casts at most
\* one vote, so there are at most 6 votes and buy_count + sell_count <= 6;
\* when the price is within 1% of both the support and the resistance the
\* proximity rule casts a BUY vote and no SELL vote.
C19_OneVotePerRule ==
    ScoreDone
        => /\ Len(loc.signals) <= 6
           /\ Len(loc.confidence_factors) = Len(loc.signals)
           /\ loc.buy_signals + loc.sell_signals = Len(loc.signals)
           /\ loc.buy_signals + loc.sell_signals <= 6
           /\ loc.signals =
                 SelectSeq(Append(FirstFiveVotes, proximity_vote(req.args)),
                           LAMBDA v : v # "NONE")
           /\ NearBoth
                => /\ loc.buy_signals = Count(FirstFiveVotes, "BUY") + 1
                   /\ loc.sell_signals = Count(FirstFiveVotes, "SELL")

\* price 1.000, support 1.000, resistance 1.005, no other rule votes: one BUY
\* vote, of weight 15
C19_Witness ==
    /\ ScoreDone /\ NearBoth
    /\ req.args.current_price.v = 1000 /\ req.args.resistance.v = 1005
    /\ loc.signals = <<"BUY">>
    /\ loc.confidence_factors = <<15>>
    /\ res.action = "BUY"

\* all six rules vote
C19_SixVotes == ScoreDone /\ Len(loc.signals) = 6

C16_ResultIndependentOfHistory ==
    \A i, j \in DOMAIN log : log[j].req = log[i].req => log[j].res = log[i].res

\* a result without the three price levels of the image path
WithoutImagePrices(r) ==
    IF r.analysis_type = "chart_pattern"
    THEN [r EXCEPT !.entry = 0, !.take_profit = 0, !.stop_loss = 0]
    ELSE r

\* the generator state a logged call leaves behind
StateAfter(c) ==
    IF c.res.analysis_type = "chart_pattern" THEN random_advance(c.state) ELSE c.state

\* C16 amended: no call changes the field indicators of the analyzer; the
\* one state a call changes and a later call reads is numpy's global random
\* generator, which every image call that reaches the scoring advances and
\* which fixes the entry of that call; apart from the three price levels of
\* image results, equal requests have equal results.
C16_OnlyGeneratorCarriesOver ==
    /\ indicators = EmptyDict
    /\ \A i, j \in DOMAIN log :
          log[j].req = log[i].req
              => WithoutImagePrices(log[j].res) = WithoutImagePrices(log[i].res)
    /\ \A i \in DOMAIN log :
          /\ (IF i < Len(log) THEN log[i + 1].state ELSE random_state) = StateAfter(log[i])
          /\ log[i].res.analysis_type = "chart_pattern"
                => log[i].res.entry = round2_fine(random_uniform(log[i].state) * 200)

\* the same image analysed twice in a row: BUY with 75% both times, at
\* different entries
C16_Witness ==
    /\ Len(log) >= 2
    /\ log[1].req.kind = "image" /\ log[2].req = log[1].req
    /\ log[1].res.analysis_type = "chart_pattern"
    /\ log[1].res.action = "BUY" /\ log[2].res.action = "BUY"
    /\ log[1].res.confidence = "75%" /\ log[2].res.confidence = "75%"
    /\ log[2].res.entry # log[1].res.entry

\* the file name ends in a dot followed by one of jpg, jpeg, png, csv, in
\* either case
HasSupportedExtension(name) ==
    \E e \in supported_ext :
        /\ Len(name) >= Len(e) + 1
        /\ str_lower(SubSeq(name, Len(name) - Len(e), Len(name))) = <<".">> \o e

\* the worker has taken a request past the validation
PastValidation(w) == workers[w].pc \notin {"idle", "validate"}

\* nothing of the request has reached the upload directory, the analyzer or
\* the signal store
NoEffect(w) ==
    /\ ~workers[w].wrote
    /\ workers[w].analysis_result = NoResult
    /\ \A i \in DOMAIN saved : saved[i].worker # w

\* C18 as stated: a request whose file extension is not one of jpg, jpeg,
\* png, csv, or whose timeframe is not one of the seven, is rejected with
\* status 400 before any file is written, any analyzer call is made and any
\* signal is saved.
C18_InvalidRejectedBeforeEffects ==
    \A w \in Workers :
        (/\ PastValidation(w)
         /\ \/ ~HasSupportedExtension(workers[w].request.filename)
            \/ workers[w].request.timeframe \notin valid_timeframes)
            => /\ workers[w].pc = "responded"
               /\ workers[w].response.status = 400
               /\ NoEffect(w)

\* the order of the handler with the extension as line 76 computes it: a
\* request that fails the checks of lines 73-83 is answered 400 with no
\* effect, and every effect belongs to a request that passed them
ValidationPrecedesEffects ==
    \A w \in Workers :
        PastValidation(w) =>
            LET v == validate(workers[w].request.filename, workers[w].request.timeframe)
            IN  /\ v.status = 400
                    => (workers[w].pc = "responded" /\ workers[w].response = v /\ NoEffect(w))
                /\ ~NoEffect(w) => v.status = 0

\* what the request of a worker returns when no other request is running
ResultAlone(w) ==
    run_analysis(file_ext(workers[w].request.filename), workers[w].request.content,
                 workers[w].request.timeframe, 1).result

\* C17 as stated: in every interleaving of two requests, the file a request
\* is about to read is the one it wrote, each request is analysed on the
\* content it uploaded and gets the result it gets when run alone (up to the
\* sampled prices of the image path).  Stated for file names with a listed
\* extension.
C17_RequestsDoNotInteract ==
    \A w \in Workers :
        (PastValidation(w) /\ HasSupportedExtension(workers[w].request.filename))
            => /\ workers[w].pc = "analyze"
                     => /\ workers[w].file_path \in DOMAIN uploads
                        /\ uploads[workers[w].file_path] = workers[w].request.content
               /\ workers[w].analysis_result # NoResult
                     => /\ workers[w].analysed = workers[w].request.content
                        /\ WithoutImagePrices(workers[w].analysis_result)
                               = WithoutImagePrices(ResultAlone(w))

\* C20 as stated: a request that wrote its upload has removed the file by
\* the time it responds, whatever the outcome (the file may be there again
\* only if another request wrote the same path).
C20_UploadRemovedOnResponse ==
    \A w \in Workers :
        (/\ workers[w].pc = "responded"
         /\ workers[w].wrote
         /\ HasSupportedExtension(workers[w].request.filename)
         /\ \A v \in Workers \ {w} :
               ~(workers[v].wrote /\ workers[v].file_path = workers[w].file_path))
            => workers[w].file_path \notin DOMAIN uploads

\* the successful outcome: the upload is removed before the 200 response
RemovedOnSuccess ==
    \A w \in Workers :
        (/\ workers[w].pc = "responded"
         /\ workers[w].response.status = 200
         /\ \A v \in Workers \ {w} :
               ~(workers[v].wrote /\ workers[v].file_path = workers[w].file_path))
            => workers[w].file_path \notin DOMAIN uploads

====
